---- MODULE Spec2Model ----
(***************************************************************************)
(* Roster state machine of bot.py: per-chat signup list whose entries are  *)
(* flat strings "Name", "Name +N", "Name +N<ZWS>", with the handlers that  *)
(* mutate it ('+', '-', '+N', '-N' and the admin commands).                *)
(*                                                                         *)
(* A Python str is modelled as a sequence of one-character strings, so     *)
(* that the regex, strip(), lower() and substring tests of the source are  *)
(* computed character by character.  The zero-width space U+200B is the    *)
(* single character written ZWS here.                                      *)
(***************************************************************************)
EXTENDS Integers, Sequences, FiniteSets, TLC

\* ---------------------------------------------------------------- bounds
\* longest roster the handlers may build (appends are cut off beyond it)
MaxUsers == 2
\* largest argument of /setlimit that is tried
MaxLimit == 3
\* largest N of '+N' / '-N' that is tried (the patterns accept up to 5)
MaxN == 2

\* number of handler coroutines that may be suspended at the same time
MaxTasks == 2

\* ------------------------------------------------------------- constants
MAX_GUESTS_PER_HOST == 5
ZWS == "ZWS"
\* the default venue, written in ASCII
DEFAULT_FIELD == "Horizon-arena"
DEFAULT_TIME == <<"2","0",":","0","0","-","2","2",":","0","0">>
\* datetime.now().strftime("%d/%m/%y") at first touch of a chat
TODAY == <<"2","9","/","1","0","/","2","6">>

\* ------------------------------------------------- Python str primitives
Digits == <<"0","1","2","3","4","5","6","7","8","9">>
IsDigit(ch) == \E i \in 1..10 : Digits[i] = ch
DigitVal(ch) == (CHOOSE i \in 1..10 : Digits[i] = ch) - 1
\* str.isspace() on the alphabet of the model: ZWS is not whitespace
IsSpace(ch) == ch = " "

Upper == <<"A","B","C","D","E">>
LowerOf == <<"a","b","c","d","e">>
LowerCh(ch) ==
  IF \E i \in 1..Len(Upper) : Upper[i] = ch
  THEN LowerOf[CHOOSE i \in 1..Len(Upper) : Upper[i] = ch]
  ELSE ch
\* str.lower()
Lower(s) == [i \in 1..Len(s) |-> LowerCh(s[i])]

\* str.strip()
Strip(s) ==
  LET keep == {i \in 1..Len(s) : ~IsSpace(s[i])}
  IN IF keep = {} THEN <<>>
     ELSE LET lo == CHOOSE i \in keep : \A j \in keep : i <= j
              hi == CHOOSE i \in keep : \A j \in keep : j <= i
          IN SubSeq(s, lo, hi)

\* `sub in s` for str
Contains(s, sub) ==
  \E i \in 0..(Len(s) - Len(sub)) : SubSeq(s, i + 1, i + Len(sub)) = sub

\* int() of a run of decimal digits
RECURSIVE ParseInt(_)
ParseInt(ds) ==
  IF ds = <<>> THEN 0
  ELSE 10 * ParseInt(SubSeq(ds, 1, Len(ds) - 1)) + DigitVal(ds[Len(ds)])

\* str(n) for n >= 0
RECURSIVE Decimal(_)
Decimal(n) ==
  IF n < 10 THEN <<Digits[n + 1]>>
  ELSE Decimal(n \div 10) \o <<Digits[(n % 10) + 1]>>

\* ------------------------------------------------ helpers: guests parsing
\* _guest_re = r"\s\+(\d+)(​)?$" : the start position of its only
\* possible match in e (the match must end at the end of e), or 0.
GuestMatchStart(e) ==
  LET body == IF Len(e) > 0 /\ e[Len(e)] = ZWS THEN Len(e) - 1 ELSE Len(e)
      starts == {i \in 1..(body - 2) :
                   /\ IsSpace(e[i])
                   /\ e[i + 1] = "+"
                   /\ \A j \in (i + 2)..body : IsDigit(e[j])}
  IN IF starts = {} THEN 0 ELSE CHOOSE i \in starts : TRUE

\* m.group(2) of the match: the trailing ZWS was consumed
GuestMatchZws(e) == GuestMatchStart(e) > 0 /\ e[Len(e)] = ZWS

_guest_count(entry) ==
  LET m == GuestMatchStart(entry)
      last == IF GuestMatchZws(entry) THEN Len(entry) - 1 ELSE Len(entry)
  IN IF m > 0 THEN ParseInt(SubSeq(entry, m + 2, last)) ELSE 0

_is_guest_only(entry) == GuestMatchZws(entry)

_strip_guest(entry) ==
  LET m == GuestMatchStart(entry)
  IN Strip(IF m > 0 THEN SubSeq(entry, 1, m - 1) ELSE entry)

\* _make_entry with the guest-only flag read the wrong way round
_make_entry_inverted(display, n, guest_only) ==
  IF n <= 0 THEN Strip(display)
  ELSE Strip(display) \o <<" ", "+">> \o Decimal(n)
         \o (IF guest_only THEN <<>> ELSE <<ZWS>>)

_make_entry(display, n, guest_only) ==
  IF n <= 0 THEN Strip(display)
  ELSE Strip(display) \o <<" ", "+">> \o Decimal(n)
         \o (IF guest_only THEN <<ZWS>> ELSE <<>>)

\* ------------------------------------------------------ identity matching
\* A chat member as Telegram reports it (update.effective_user): first and
\* last name and username; <<>> stands for an absent (None/empty) field.
None == <<>>

\* display_name_from_update(update), for a present effective_user
display_name_from_update(u) ==
  LET parts == (IF u.first_name # None THEN <<u.first_name>> ELSE <<>>)
                 \o (IF u.last_name # None THEN <<u.last_name>> ELSE <<>>)
      name == IF Len(parts) = 2 THEN parts[1] \o <<" ">> \o parts[2]
              ELSE IF Len(parts) = 1 THEN parts[1]
              ELSE IF u.username # None THEN u.username ELSE u.id
  IN IF u.username # None
     THEN name \o <<" ", "(", "@">> \o u.username \o <<")">>
     ELSE name

\* _find_user_index: the 0-based index of the first entry that carries
\* "@username" or whose stripped form equals the display name; -1 if none.
EntryMatches(e, dn, un) ==
  LET el == Lower(e)
  IN \/ (un # None /\ Contains(el, un))
     \/ _strip_guest(el) = dn

\* _find_user_index that returns the last matching index, not the first
_find_user_index_last(users, display_name, username) ==
  LET dn == Strip(Lower(display_name))
      un == IF username # None THEN <<"@">> \o Lower(username) ELSE None
      hits == {i \in 1..Len(users) : EntryMatches(users[i], dn, un)}
  IN IF hits = {} THEN -1
     ELSE (CHOOSE i \in hits : \A j \in hits : j <= i) - 1

\* the loop of _find_user_index from the 1-based position i on
RECURSIVE FindFrom(_, _, _, _)
FindFrom(users, i, dn, un) ==
  IF i > Len(users) THEN -1
  ELSE IF EntryMatches(users[i], dn, un) THEN i - 1
  ELSE FindFrom(users, i + 1, dn, un)

_find_user_index(users, display_name, username) ==
  LET dn == Strip(Lower(display_name))
      un == IF username # None THEN <<"@">> \o Lower(username) ELSE None
  IN FindFrom(users, 1, dn, un)

\* ----------------------------------------------------- capacity accounting
\* slots one entry occupies in _total_count
EntrySlots(e) ==
  LET n == _guest_count(e)
  IN IF n # 0 THEN (IF _is_guest_only(e) THEN n ELSE 1 + n) ELSE 1

RECURSIVE _total_count(_)
_total_count(users) ==
  IF users = <<>> THEN 0
  ELSE _total_count(SubSeq(users, 1, Len(users) - 1)) + EntrySlots(users[Len(users)])

\* the lines of one entry when the host line is emitted for every entry,
\* guest-only or not
EntryLines_always_host(e) ==
  LET n == _guest_count(e)
      base == _strip_guest(e)
  IN <<base>> \o [k \in 1..n |-> base \o <<" ", "+", "1">>]

\* the display lines one entry contributes to _expanded_users
EntryLines(e) ==
  LET n == _guest_count(e)
      base == _strip_guest(e)
      guest == base \o <<" ", "+", "1">>
  IN IF n # 0
     THEN (IF ~_is_guest_only(e) THEN <<base>> ELSE <<>>) \o [k \in 1..n |-> guest]
     ELSE <<base>>

RECURSIVE _expanded_users(_)
_expanded_users(users) ==
  IF users = <<>> THEN <<>>
  ELSE _expanded_users(SubSeq(users, 1, Len(users) - 1)) \o EntryLines(users[Len(users)])

\* format_list: the participant count it prints and whether it prints the
\* "limit reached" line
format_list_count(cs) == Len(_expanded_users(cs.users))
format_list_cap(cs) == cs.limit # 0 /\ format_list_count(cs) >= cs.limit

\* ------------------------------------------------------------------ state
\* state : the global dict  str(chat_id) -> chat record; its DOMAIN is the
\*         set of keys present
\* disk  : STATE_FILE: whether it exists and the dict it holds
\* reply : which reply_text the last replying handler sent ("" before any)
\* tasks : the handler coroutines that are suspended at an await, one per
\*         slot (used by SpecConc only; Spec and SpecMeta run each handler
\*         to its end in one step and leave every slot idle)
VARIABLES state, disk, reply, tasks
vars == <<state, disk, reply, tasks>>

GroupChat == "-100"
GroupChat2 == "-200"
PrivateChat == "7"
ChatIds == {GroupChat, GroupChat2, PrivateChat}
\* update.effective_chat.type
ChatTypeOf(c) == IF c = PrivateChat THEN "private" ELSE "supergroup"

EmptyState == [c \in {} |-> 0]
NoFile == [exists |-> FALSE, data |-> EmptyState]

\* ensure_chat(chat_id) as a function of the dict
ensure_chat(st, c) ==
  IF c \in DOMAIN st THEN st
  ELSE [k \in DOMAIN st \cup {c} |->
          IF k = c
          THEN [open |-> FALSE, date |-> TODAY, time |-> DEFAULT_TIME,
                field |-> DEFAULT_FIELD, limit |-> 0, users |-> <<>>]
          ELSE st[k]]

\* load_state(): the dict after a (re)start
load_state(d) == IF d.exists THEN d.data ELSE EmptyState

\* list.append / item assignment / del on the users list (idx is 0-based)
Append0(users, e) == Append(users, e)
SetAt(users, idx, e) == [users EXCEPT ![idx + 1] = e]
DelAt(users, idx) == SubSeq(users, 1, idx) \o SubSeq(users, idx + 2, Len(users))

\* What a message handler did to the chat record it worked on:
\* the users list it leaves, the reply it sent, whether it called
\* save_state(), and the number of slots it used in its limit check.
Outcome(users, rep, saved, slots) ==
  [users |-> users, reply |-> rep, save |-> saved, added |-> slots]

\* ------------------------------------------------------- message handlers
\* `limit and cur + slots > limit` of plus_message and _plus_n_common
LimitExceeded(limit, cur, slots) == limit # 0 /\ cur + slots > limit

\* plus_message, from `users = chat_state["users"]` on (roster is open)
plus_open(cs, u) ==
  LET users == cs.users
      limit == cs.limit
      cur == _total_count(users)
      disp == display_name_from_update(u)
      idx == _find_user_index(users, disp, u.username)
  IN IF idx # -1
     THEN LET entry == users[idx + 1]
          IN IF _is_guest_only(entry)
             THEN IF LimitExceeded(limit, cur, 1)
                  THEN Outcome(users, "no_room", FALSE, 1)
                  ELSE Outcome(SetAt(users, idx,
                                 _make_entry(_strip_guest(entry), _guest_count(entry), FALSE)),
                               "restored", TRUE, 1)
             ELSE Outcome(users, "already", FALSE, 0)
     ELSE IF LimitExceeded(limit, cur, 1)
          THEN Outcome(users, "no_room", FALSE, 1)
          ELSE Outcome(Append0(users, _make_entry(disp, 0, FALSE)), "joined", TRUE, 1)

\* _plus_n_common, from `users = chat_state["users"]` on (roster is open)
plus_n_open(cs, u, n) ==
  LET users == cs.users
      limit == cs.limit
      cur == _total_count(users)
      disp == display_name_from_update(u)
      idx == _find_user_index(users, disp, u.username)
  IN IF idx = -1
     THEN IF n > MAX_GUESTS_PER_HOST
          THEN Outcome(users, "max_guests", FALSE, 0)
          ELSE IF LimitExceeded(limit, cur, 1 + n)
          THEN Outcome(users, "no_room_n", FALSE, 1 + n)
          ELSE Outcome(Append0(users, _make_entry(disp, n, FALSE)), "joined_n", TRUE, 1 + n)
     ELSE LET entry == users[idx + 1]
              base == _strip_guest(entry)
              cur_n == _guest_count(entry)
              is_guest_only == _is_guest_only(entry)
              extra_slots == n + (IF is_guest_only THEN 1 ELSE 0)
          IN IF cur_n + n > MAX_GUESTS_PER_HOST
             THEN Outcome(users, "too_many", FALSE, 0)
             ELSE IF LimitExceeded(limit, cur, extra_slots)
             THEN Outcome(users, "no_room_n", FALSE, extra_slots)
             ELSE Outcome(SetAt(users, idx, _make_entry(base, cur_n + n, FALSE)),
                          "added_n", TRUE, extra_slots)

\* minus_message whose guest-only branch does not return and goes on to
\* delete the entry
minus_body_falls_through(cs, u) ==
  LET users == cs.users
      disp == display_name_from_update(u)
      idx == _find_user_index(users, disp, u.username)
  IN IF idx = -1 THEN Outcome(users, "not_found", FALSE, 0)
     ELSE LET entry == users[idx + 1]
              n == _guest_count(entry)
          IN IF n > 0 /\ ~_is_guest_only(entry)
             THEN Outcome(SetAt(users, idx, _make_entry(_strip_guest(entry), n, TRUE)),
                          "host_left", TRUE, 0)
             ELSE IF _is_guest_only(entry)
             THEN Outcome(DelAt(users, idx), "only_guests", TRUE, 0)
             ELSE Outcome(DelAt(users, idx), "left", TRUE, 0)

\* minus_message that rewrites a host's entry without its guests
minus_body_drops_guests(cs, u) ==
  LET users == cs.users
      disp == display_name_from_update(u)
      idx == _find_user_index(users, disp, u.username)
  IN IF idx = -1 THEN Outcome(users, "not_found", FALSE, 0)
     ELSE LET entry == users[idx + 1]
              n == _guest_count(entry)
          IN IF n > 0 /\ ~_is_guest_only(entry)
             THEN Outcome(SetAt(users, idx, _make_entry(_strip_guest(entry), 0, TRUE)),
                          "host_left", TRUE, 0)
             ELSE IF _is_guest_only(entry)
             THEN Outcome(users, "only_guests", FALSE, 0)
             ELSE Outcome(DelAt(users, idx), "left", TRUE, 0)

\* minus_message, from `users = chat_state["users"]` on
minus_body(cs, u) ==
  LET users == cs.users
      disp == display_name_from_update(u)
      idx == _find_user_index(users, disp, u.username)
  IN IF idx = -1 THEN Outcome(users, "not_found", FALSE, 0)
     ELSE LET entry == users[idx + 1]
              n == _guest_count(entry)
          IN IF n > 0 /\ ~_is_guest_only(entry)
             THEN Outcome(SetAt(users, idx, _make_entry(_strip_guest(entry), n, TRUE)),
                          "host_left", TRUE, 0)
             ELSE IF _is_guest_only(entry)
             THEN Outcome(users, "only_guests", FALSE, 0)
             ELSE Outcome(DelAt(users, idx), "left", TRUE, 0)

\* _minus_n_common, from `users = chat_state["users"]` on
minus_n_body(cs, u, n) ==
  LET users == cs.users
      disp == display_name_from_update(u)
      idx == _find_user_index(users, disp, u.username)
  IN IF idx = -1 THEN Outcome(users, "not_found_n", FALSE, 0)
     ELSE LET entry == users[idx + 1]
              base == _strip_guest(entry)
              cur_n == _guest_count(entry)
              is_guest_only == _is_guest_only(entry)
          IN IF cur_n = 0 THEN Outcome(users, "no_guests", FALSE, 0)
             ELSE IF n >= cur_n
             THEN Outcome(IF is_guest_only THEN DelAt(users, idx) ELSE SetAt(users, idx, base),
                          "guests_cleared", TRUE, 0)
             ELSE Outcome(SetAt(users, idx, _make_entry(base, cur_n - n, is_guest_only)),
                          "guests_removed", TRUE, 0)

\* --------------------------------------------------- admin-command parsing
\* the positions of "/" in s, and s cut at them
SlashAt(s) == {i \in 1..Len(s) : s[i] = "/"}
AllDigits(s) == \A i \in 1..Len(s) : IsDigit(s[i])
DaysIn(m, yy) ==
  IF m = 2 THEN (IF yy % 4 = 0 THEN 29 ELSE 28)
  ELSE IF m \in {4, 6, 9, 11} THEN 30 ELSE 31

\* datetime.strptime(s, "%d/%m/%y") succeeds
\* (%d: 3[0-1]|[1-2]\d|0[1-9]|[1-9]| [1-9];  %m: 1[0-2]|0[1-9]|[1-9];  %y: \d\d)
DateOk(s) ==
  /\ Cardinality(SlashAt(s)) = 2
  /\ LET p == CHOOSE i \in SlashAt(s) : \A j \in SlashAt(s) : i <= j
         q == CHOOSE i \in SlashAt(s) : \A j \in SlashAt(s) : j <= i
         dd0 == SubSeq(s, 1, p - 1)
         dd == IF Len(dd0) = 2 /\ dd0[1] = " " THEN SubSeq(dd0, 2, 2) ELSE dd0
         mm == SubSeq(s, p + 1, q - 1)
         yy == SubSeq(s, q + 1, Len(s))
     IN /\ Len(dd) \in {1, 2} /\ AllDigits(dd)
        /\ Len(mm) \in {1, 2} /\ AllDigits(mm)
        /\ Len(yy) = 2 /\ AllDigits(yy)
        /\ ParseInt(mm) \in 1..12
        /\ ParseInt(dd) \in 1..DaysIn(ParseInt(mm), ParseInt(yy))

\* re.match(r"^\d{2}:\d{2}-\d{2}:\d{2}$", s)
TimeOk(s) ==
  /\ Len(s) = 11
  /\ \A i \in {1, 2, 4, 5, 7, 8, 10, 11} : IsDigit(s[i])
  /\ s[3] = ":" /\ s[6] = "-" /\ s[9] = ":"

\* int(s): whitespace around s is dropped, then comes an optional sign and
\* then the digits, where a single underscore may stand between two digits
IntBody(s) ==
  LET t == Strip(s)
  IN IF Len(t) > 0 /\ t[1] \in {"+", "-"} THEN Tail(t) ELSE t
\* int(s) succeeds
IntOk(s) ==
  LET ds == IntBody(s)
  IN /\ Len(ds) > 0
     /\ \A i \in 1..Len(ds) :
          \/ IsDigit(ds[i])
          \/ /\ ds[i] = "_" /\ 1 < i /\ i < Len(ds)
             /\ IsDigit(ds[i - 1]) /\ IsDigit(ds[i + 1])
\* the value of int(s) when it succeeds
IntOf(s) ==
  LET ds == IntBody(s)
      v == ParseInt(SelectSeq(ds, LAMBDA ch : ch # "_"))
  IN IF Strip(s)[1] = "-" THEN 0 - v ELSE v
Max0(n) == IF n > 0 THEN n ELSE 0

\* is_admin_member(member)
is_admin_member(u) == u.status \in {"administrator", "creator", "owner"}

\* save_state(): the file takes the whole dict
save_state(st) == [exists |-> TRUE, data |-> st]

\* ------------------------------------------------- handlers, whole calls
\* What one handler call does: the dict it leaves, the reply it sent
\* (NoReply: it returned without replying), whether it saved, and the slots
\* it used in its limit check.
NoReply == "none"
Result(st, rep, saved, slots) ==
  [state |-> st, reply |-> rep, save |-> saved, added |-> slots]
InChat(st, c, o) ==
  Result([st EXCEPT ![c].users = o.users], o.reply, o.save, o.added)
IsGroup(c) == ChatTypeOf(c) \in {"group", "supergroup"}

plus_message(st, c, u) ==
  IF ~IsGroup(c) THEN Result(st, NoReply, FALSE, 0)
  ELSE LET st1 == ensure_chat(st, c)
       IN IF ~st1[c].open THEN Result(st1, "closed", FALSE, 0)
          ELSE InChat(st1, c, plus_open(st1[c], u))

\* _plus_n_common without the test of chat_state["open"]
_plus_n_common_ungated(st, c, u, n) ==
  LET st1 == ensure_chat(st, c)
  IN InChat(st1, c, plus_n_open(st1[c], u, n))

_plus_n_common(st, c, u, n) ==
  LET st1 == ensure_chat(st, c)
  IN IF ~st1[c].open THEN Result(st1, "closed", FALSE, 0)
     ELSE InChat(st1, c, plus_n_open(st1[c], u, n))

\* minus_message that refuses on a closed roster, as plus_message does
minus_message_gated(st, c, u) ==
  IF ~IsGroup(c) THEN Result(st, NoReply, FALSE, 0)
  ELSE LET st1 == ensure_chat(st, c)
       IN IF ~st1[c].open THEN Result(st1, "closed", FALSE, 0)
          ELSE InChat(st1, c, minus_body(st1[c], u))

minus_message(st, c, u) ==
  IF ~IsGroup(c) THEN Result(st, NoReply, FALSE, 0)
  ELSE LET st1 == ensure_chat(st, c)
       IN InChat(st1, c, minus_body(st1[c], u))

_minus_n_common(st, c, u, n) ==
  LET st1 == ensure_chat(st, c)
  IN InChat(st1, c, minus_n_body(st1[c], u, n))

\* open_cmd that skips a field it cannot parse and opens all the same
open_cmd_lenient(st, c, u, args) ==
  IF ~is_admin_member(u) THEN Result(st, NoReply, FALSE, 0)
  ELSE LET st1 == ensure_chat(st, c)
           st2 == IF Len(args) >= 1 /\ DateOk(args[1])
                  THEN [st1 EXCEPT ![c].date = args[1]] ELSE st1
           st3 == IF Len(args) >= 2 /\ TimeOk(args[2])
                  THEN [st2 EXCEPT ![c].time = args[2]] ELSE st2
       IN Result([st3 EXCEPT ![c].open = TRUE], "opened", TRUE, 0)

\* admin commands; args is context.args (a list of str)
open_cmd(st, c, u, args) ==
  IF ~is_admin_member(u) THEN Result(st, NoReply, FALSE, 0)
  ELSE LET st1 == ensure_chat(st, c)
           st2 == IF Len(args) >= 1 /\ DateOk(args[1])
                  THEN [st1 EXCEPT ![c].date = args[1]] ELSE st1
           st3 == IF Len(args) >= 2 /\ TimeOk(args[2])
                  THEN [st2 EXCEPT ![c].time = args[2]] ELSE st2
       IN IF Len(args) >= 1 /\ ~DateOk(args[1]) THEN Result(st1, "error", FALSE, 0)
          ELSE IF Len(args) >= 2 /\ ~TimeOk(args[2]) THEN Result(st2, "error", FALSE, 0)
          ELSE Result([st3 EXCEPT ![c].open = TRUE], "opened", TRUE, 0)

close_cmd(st, c, u) ==
  IF ~is_admin_member(u) THEN Result(st, NoReply, FALSE, 0)
  ELSE Result([ensure_chat(st, c) EXCEPT ![c].open = FALSE], "closed_ok", TRUE, 0)

setdate_cmd(st, c, u, args) ==
  IF ~is_admin_member(u) THEN Result(st, NoReply, FALSE, 0)
  ELSE LET st1 == ensure_chat(st, c)
       IN IF args = <<>> THEN Result(st1, "date_usage", FALSE, 0)
          ELSE IF ~DateOk(args[1]) THEN Result(st1, "error", FALSE, 0)
          ELSE Result([st1 EXCEPT ![c].date = args[1]], "date_set", TRUE, 0)

settime_cmd(st, c, u, args) ==
  IF ~is_admin_member(u) THEN Result(st, NoReply, FALSE, 0)
  ELSE LET st1 == ensure_chat(st, c)
       IN IF args = <<>> THEN Result(st1, "time_usage", FALSE, 0)
          ELSE IF ~TimeOk(args[1]) THEN Result(st1, "error", FALSE, 0)
          ELSE Result([st1 EXCEPT ![c].time = args[1]], "time_set", TRUE, 0)

\* text is " ".join(context.args).strip(), an opaque string here
setfield_cmd(st, c, u, text) ==
  IF ~is_admin_member(u) THEN Result(st, NoReply, FALSE, 0)
  ELSE LET st1 == ensure_chat(st, c)
       IN IF text = "" THEN Result(st1, "field_usage", FALSE, 0)
          ELSE Result([st1 EXCEPT ![c].field = text], "field_set", TRUE, 0)

setlimit_cmd(st, c, u, args) ==
  IF ~is_admin_member(u) THEN Result(st, NoReply, FALSE, 0)
  ELSE LET st1 == ensure_chat(st, c)
       IN IF args = <<>> THEN Result(st1, "limit_usage", FALSE, 0)
          ELSE IF ~IntOk(args[1]) THEN Result(st1, "limit_bad", FALSE, 0)
          ELSE Result([st1 EXCEPT ![c].limit = Max0(IntOf(args[1]))], "limit_set", TRUE, 0)

\* the entries /remove keeps: those that do not contain key.lower()
RECURSIVE KeepWithout(_, _)
KeepWithout(users, key) ==
  IF users = <<>> THEN <<>>
  ELSE LET rest == KeepWithout(Tail(users), key)
       IN IF Contains(Lower(Head(users)), Lower(key)) THEN rest
          ELSE <<Head(users)>> \o rest

\* key is " ".join(context.args)
remove_cmd(st, c, u, key) ==
  IF ~is_admin_member(u) THEN Result(st, NoReply, FALSE, 0)
  ELSE LET st1 == ensure_chat(st, c)
       IN IF Strip(key) = <<>> THEN Result(st1, "remove_usage", FALSE, 0)
          ELSE Result([st1 EXCEPT ![c].users = KeepWithout(st1[c].users, Strip(key))],
                      "removed", TRUE, 0)

list_cmd(st, c) == Result(ensure_chat(st, c), "list", FALSE, 0)

start(st, c) == Result(ensure_chat(st, c), "help", FALSE, 0)

\* reset_cmd that empties the list of every chat of the dict
reset_cmd_all_chats(st, c, u) ==
  IF ~is_admin_member(u) THEN Result(st, NoReply, FALSE, 0)
  ELSE LET st1 == ensure_chat(st, c)
       IN Result([k \in DOMAIN st1 |-> [st1[k] EXCEPT !.users = <<>>]], "reset", TRUE, 0)

reset_cmd(st, c, u) ==
  IF ~is_admin_member(u) THEN Result(st, NoReply, FALSE, 0)
  ELSE Result([ensure_chat(st, c) EXCEPT ![c].users = <<>>], "reset", TRUE, 0)

\* ---------------------------------------------------------------- inputs
\* The chat members that write to the chat.  Al has a username and is the
\* chat's creator.  Ev has no username and a first name that itself ends
\* like a guest suffix (Telegram puts no restriction on the text of a name).
Al == [first_name |-> <<"A">>, last_name |-> None, username |-> <<"a", "b">>,
       id |-> <<"1">>, status |-> "creator"]
Ev == [first_name |-> <<"E", " ", "+", "6">>, last_name |-> None, username |-> None,
       id |-> <<"3">>, status |-> "member"]
Members == {Al, Ev}
\* Two more members of the chat, who are looked up in the rosters that Al
\* and Ev build: Bo, whose username is the beginning of Al's, and Ed, whose
\* name is the beginning of Ev's.
Bo == [first_name |-> <<"B">>, last_name |-> None, username |-> <<"a">>,
       id |-> <<"2">>, status |-> "member"]
Ed == [first_name |-> <<"E">>, last_name |-> None, username |-> None,
       id |-> <<"4">>, status |-> "member"]
Chats == {GroupChat}
Ns == 1..MaxN
LimitArgs ==
  {<<>>, <<<<"x">>>>, <<<<"-", "1">>>>, <<<<"0", "_", "1">>>>, <<<<"1", "_">>>>}
    \cup {<<Decimal(k)>> : k \in 0..MaxLimit}
RemoveKeys == {<<>>, <<"@", "a">>, <<"e">>}

\* A handler coroutine: the update it serves (kind, chat c, sender u, the N
\* of '+N', context.args), the await it is suspended at (pc) and, once it
\* is sending its reply, which reply (rep).
Task(kind, c, u, n, args, pc, rep) ==
  [kind |-> kind, c |-> c, u |-> u, n |-> n, args |-> args, pc |-> pc, rep |-> rep]
Idle == Task("none", GroupChat, Al, 0, <<>>, "idle", NoReply)

\* ---------------------------------------------------------------- actions
Init ==
  /\ state = EmptyState
  /\ disk = NoFile
  /\ reply = ""
  /\ tasks = [i \in 1..MaxTasks |-> Idle]

\* The effect of a handler call r on the three variables.
WithinBound(r) == \A c \in DOMAIN r.state : Len(r.state[c].users) <= MaxUsers
DiskAfter(r) == IF r.save THEN save_state(r.state) ELSE disk
ReplyAfter(r) == IF r.reply = NoReply THEN reply ELSE r.reply

Plus ==
  \E c \in Chats, u \in Members :
    LET r == plus_message(state, c, u)
    IN WithinBound(r) /\ state' = r.state /\ disk' = DiskAfter(r) /\ reply' = ReplyAfter(r)
       /\ UNCHANGED tasks
PlusN ==
  \E c \in Chats, u \in Members, n \in Ns :
    LET r == _plus_n_common(state, c, u, n)
    IN WithinBound(r) /\ state' = r.state /\ disk' = DiskAfter(r) /\ reply' = ReplyAfter(r)
       /\ UNCHANGED tasks
Minus ==
  \E c \in Chats, u \in Members :
    LET r == minus_message(state, c, u)
    IN state' = r.state /\ disk' = DiskAfter(r) /\ reply' = ReplyAfter(r)
       /\ UNCHANGED tasks
MinusN ==
  \E c \in Chats, u \in Members, n \in Ns :
    LET r == _minus_n_common(state, c, u, n)
    IN state' = r.state /\ disk' = DiskAfter(r) /\ reply' = ReplyAfter(r)
       /\ UNCHANGED tasks
Open ==
  \E c \in Chats, u \in Members :
    LET r == open_cmd(state, c, u, <<>>)
    IN state' = r.state /\ disk' = DiskAfter(r) /\ reply' = ReplyAfter(r)
       /\ UNCHANGED tasks
Close ==
  \E c \in Chats, u \in Members :
    LET r == close_cmd(state, c, u)
    IN state' = r.state /\ disk' = DiskAfter(r) /\ reply' = ReplyAfter(r)
       /\ UNCHANGED tasks
SetLimit ==
  \E c \in Chats, u \in Members, a \in LimitArgs :
    LET r == setlimit_cmd(state, c, u, a)
    IN state' = r.state /\ disk' = DiskAfter(r) /\ reply' = ReplyAfter(r)
       /\ UNCHANGED tasks
Remove ==
  \E c \in Chats, u \in Members, k \in RemoveKeys :
    LET r == remove_cmd(state, c, u, k)
    IN state' = r.state /\ disk' = DiskAfter(r) /\ reply' = ReplyAfter(r)
       /\ UNCHANGED tasks
Reset ==
  \E c \in Chats, u \in Members :
    LET r == reset_cmd(state, c, u)
    IN state' = r.state /\ disk' = DiskAfter(r) /\ reply' = ReplyAfter(r)
       /\ UNCHANGED tasks
List ==
  \E c \in Chats :
    LET r == list_cmd(state, c)
    IN state' = r.state /\ disk' = DiskAfter(r) /\ reply' = ReplyAfter(r)
       /\ UNCHANGED tasks
\* the process is stopped and started again: main() runs load_state()
Restart == state' = load_state(disk) /\ UNCHANGED <<disk, reply, tasks>>

Next ==
  \/ Plus \/ PlusN \/ Minus \/ MinusN
  \/ Open \/ Close \/ SetLimit \/ Remove \/ Reset \/ List
  \/ Restart

Spec == Init /\ [][Next]_vars

\* ------------------------------------------- the event-metadata commands
\* A second specification for /open with arguments, /setdate, /settime,
\* /setfield and /start: they leave users, open and limit alone (but for
\* /open setting open), so Spec above runs without them and SpecMeta runs
\* them over a roster that only Al joins.
GoodDate == <<"0", "1", "/", "0", "2", "/", "2", "7">>
ShortDate == <<"1", "/", "2", "/", "2", "7">>
NoSuchDay == <<"3", "1", "/", "0", "2", "/", "2", "7">>
GoodTime == <<"1", "8", ":", "0", "0", "-", "2", "0", ":", "0", "0">>
BadTime == <<"1", "8", ":", "0", "0">>
DateArgs == {GoodDate, ShortDate, NoSuchDay}
TimeArgs == {GoodTime, BadTime}
OpenArgs == {<<>>} \cup {<<d>> : d \in DateArgs} \cup {<<d, t>> : d \in DateArgs, t \in TimeArgs}
FieldArgs == {"", "Arena-2"}

OpenWith ==
  \E c \in Chats, u \in Members, a \in OpenArgs :
    LET r == open_cmd(state, c, u, a)
    IN state' = r.state /\ disk' = DiskAfter(r) /\ reply' = ReplyAfter(r)
       /\ UNCHANGED tasks
SetDate ==
  \E c \in Chats, u \in Members, a \in {<<>>} \cup {<<d>> : d \in DateArgs} :
    LET r == setdate_cmd(state, c, u, a)
    IN state' = r.state /\ disk' = DiskAfter(r) /\ reply' = ReplyAfter(r)
       /\ UNCHANGED tasks
SetTime ==
  \E c \in Chats, u \in Members, a \in {<<>>} \cup {<<t>> : t \in TimeArgs} :
    LET r == settime_cmd(state, c, u, a)
    IN state' = r.state /\ disk' = DiskAfter(r) /\ reply' = ReplyAfter(r)
       /\ UNCHANGED tasks
SetField ==
  \E c \in Chats, u \in Members, text \in FieldArgs :
    LET r == setfield_cmd(state, c, u, text)
    IN state' = r.state /\ disk' = DiskAfter(r) /\ reply' = ReplyAfter(r)
       /\ UNCHANGED tasks
Start ==
  \E c \in Chats :
    LET r == start(state, c)
    IN state' = r.state /\ disk' = DiskAfter(r) /\ reply' = ReplyAfter(r)
       /\ UNCHANGED tasks
JoinAl ==
  \E c \in Chats :
    LET r == plus_message(state, c, Al)
    IN state' = r.state /\ disk' = DiskAfter(r) /\ reply' = ReplyAfter(r)
       /\ UNCHANGED tasks

NextMeta ==
  \/ OpenWith \/ Close \/ SetDate \/ SetTime \/ SetField \/ Start \/ JoinAl
  \/ Restart

SpecMeta == Init /\ [][NextMeta]_vars

\* ------------------------------------------- handlers suspended at awaits
\* A third specification in which handlers interleave at their awaits.  A
\* handler runs without interruption from one await to the next; its awaits
\* are `await is_admin(...)` at the head of the admin commands (pc "admin")
\* and `await update.message.reply_text(...)` (pc "reply"), after which it
\* returns.  The text of a reply is built before the await.
JoinKinds == {"plus", "plusn"}

\* the task after a handler call r that ran up to its reply or its return
Replying(t, r) ==
  [state |-> r.state, save |-> r.save,
   task |-> IF r.reply = NoReply THEN Idle ELSE [t EXCEPT !.pc = "reply", !.rep = r.reply]]

\* plus_message / _plus_n_common with an await between the capacity check
\* and the write: the handler is suspended with its decision taken (pc
\* "admin" stands for that await) and appends its entry when it is resumed
JoinSegmentAwaitInSpan(t, st) ==
  LET r == IF t.kind = "plus" THEN plus_message(st, t.c, t.u)
           ELSE _plus_n_common(st, t.c, t.u, t.n)
  IN IF t.pc = "new"
     THEN IF r.reply \in {"joined", "joined_n"}
          THEN [state |-> ensure_chat(st, t.c), save |-> FALSE,
                task |-> [t EXCEPT !.pc = "admin", !.rep = r.reply]]
          ELSE Replying(t, r)
     ELSE [state |-> [st EXCEPT ![t.c].users =
                        Append0(@, _make_entry(display_name_from_update(t.u), t.n, FALSE))],
           save |-> TRUE,
           task |-> [t EXCEPT !.pc = "reply"]]

\* '+' and '+N': the handler runs from its start to its reply in one piece
JoinSegment(t, st) ==
  Replying(t, IF t.kind = "plus" THEN plus_message(st, t.c, t.u)
              ELSE _plus_n_common(st, t.c, t.u, t.n))

\* /open and /setlimit: suspended in is_admin first, then run to the reply
AdminSegment(t, st) ==
  IF t.pc = "new"
  THEN [state |-> st, save |-> FALSE, task |-> [t EXCEPT !.pc = "admin"]]
  ELSE Replying(t, IF t.kind = "open" THEN open_cmd(st, t.c, t.u, t.args)
                   ELSE setlimit_cmd(st, t.c, t.u, t.args))

\* what task t does to the dict st from where it stands to its next await
Segment(t, st) ==
  IF t.pc = "reply" THEN [state |-> st, save |-> FALSE, task |-> Idle]
  ELSE IF t.kind \in JoinKinds THEN JoinSegment(t, st)
  ELSE AdminSegment(t, st)

\* the N of '+N' and the argument of /setlimit that are tried here
ConcNs == {MaxN}
ConcLimitArgs == {<<Decimal(MaxLimit - 1)>>}
FreeSlot == CHOOSE i \in 1..MaxTasks : tasks[i] = Idle /\ \A j \in 1..(i - 1) : tasks[j] # Idle

\* a '+' or '+N' message is dispatched to its handler
ConcJoin ==
  /\ \E i \in 1..MaxTasks : tasks[i] = Idle
  /\ \E c \in Chats, u \in Members, n \in {0} \cup ConcNs :
       LET t == Task(IF n = 0 THEN "plus" ELSE "plusn", c, u, n, <<>>, "new", NoReply)
           r == Segment(t, state)
       IN /\ WithinBound(r)
          /\ state' = r.state /\ disk' = DiskAfter(r)
          /\ tasks' = [tasks EXCEPT ![FreeSlot] = r.task]
          /\ UNCHANGED reply
\* an /open or /setlimit command is dispatched to its handler
ConcAdminCall ==
  /\ \E i \in 1..MaxTasks : tasks[i] = Idle
  /\ \E c \in Chats, u \in Members, a \in {<<>>} \cup ConcLimitArgs :
       LET t == Task(IF a = <<>> THEN "open" ELSE "setlimit", c, u, 0, a, "new", NoReply)
           r == Segment(t, state)
       IN /\ state' = r.state /\ disk' = DiskAfter(r)
          /\ tasks' = [tasks EXCEPT ![FreeSlot] = r.task]
          /\ UNCHANGED reply
\* get_chat_member answers and the handler goes on to its reply
ConcResume ==
  \E i \in 1..MaxTasks :
    /\ tasks[i].pc = "admin"
    /\ LET r == Segment(tasks[i], state)
       IN /\ state' = r.state /\ disk' = DiskAfter(r)
          /\ tasks' = [tasks EXCEPT ![i] = r.task]
          /\ UNCHANGED reply
\* a reply is sent and its handler returns
ConcDeliver ==
  \E i \in 1..MaxTasks :
    /\ tasks[i].pc = "reply"
    /\ LET r == Segment(tasks[i], state)
       IN /\ reply' = tasks[i].rep
          /\ tasks' = [tasks EXCEPT ![i] = r.task]
          /\ UNCHANGED <<state, disk>>

NextConc == ConcJoin \/ ConcAdminCall \/ ConcResume \/ ConcDeliver

SpecConc == Init /\ [][NextConc]_vars

\* ------------------------------------------------------------- two chats
\* A fourth specification in which the bot serves two group chats.  Al,
\* who is creator of both, writes to either of them, and the process may
\* restart.
TwoChats == {GroupChat, GroupChat2}
ChatsLimitArgs == {<<Decimal(1)>>}

ChatsPlus ==
  \E c \in TwoChats :
    LET r == plus_message(state, c, Al)
    IN state' = r.state /\ disk' = DiskAfter(r) /\ reply' = ReplyAfter(r)
       /\ UNCHANGED tasks
ChatsPlusN ==
  \E c \in TwoChats :
    LET r == _plus_n_common(state, c, Al, MaxN)
    IN state' = r.state /\ disk' = DiskAfter(r) /\ reply' = ReplyAfter(r)
       /\ UNCHANGED tasks
ChatsMinus ==
  \E c \in TwoChats :
    LET r == minus_message(state, c, Al)
    IN state' = r.state /\ disk' = DiskAfter(r) /\ reply' = ReplyAfter(r)
       /\ UNCHANGED tasks
ChatsOpen ==
  \E c \in TwoChats :
    LET r == open_cmd(state, c, Al, <<>>)
    IN state' = r.state /\ disk' = DiskAfter(r) /\ reply' = ReplyAfter(r)
       /\ UNCHANGED tasks
ChatsSetLimit ==
  \E c \in TwoChats, a \in ChatsLimitArgs :
    LET r == setlimit_cmd(state, c, Al, a)
    IN state' = r.state /\ disk' = DiskAfter(r) /\ reply' = ReplyAfter(r)
       /\ UNCHANGED tasks
ChatsReset ==
  \E c \in TwoChats :
    LET r == reset_cmd(state, c, Al)
    IN state' = r.state /\ disk' = DiskAfter(r) /\ reply' = ReplyAfter(r)
       /\ UNCHANGED tasks
ChatsList ==
  \E c \in TwoChats :
    LET r == list_cmd(state, c)
    IN state' = r.state /\ disk' = DiskAfter(r) /\ reply' = ReplyAfter(r)
       /\ UNCHANGED tasks

NextChats ==
  \/ ChatsPlus \/ ChatsPlusN \/ ChatsMinus
  \/ ChatsOpen \/ ChatsSetLimit \/ ChatsReset \/ ChatsList
  \/ Restart

SpecChats == Init /\ [][NextChats]_vars

\* =================================================================== claims
\* The claims about a command are stated over every reachable state and
\* every command that can be issued in it: the handler is applied to the
\* state and its result is compared with the state.  CommandNs is the whole
\* range of N the '+N' / '-N' patterns accept.
CommandNs == 1..MAX_GUESTS_PER_HOST
UsersOf(st, c) == IF c \in DOMAIN st THEN st[c].users ELSE <<>>
LimitOf(st, c) == IF c \in DOMAIN st THEN st[c].limit ELSE 0
OpenOf(st, c) == c \in DOMAIN st /\ st[c].open
TotalOf(st, c) == _total_count(UsersOf(st, c))
IndexOf(st, c, u) == _find_user_index(UsersOf(st, c), display_name_from_update(u), u.username)
\* the caller's entry, when IndexOf finds one
EntryOf(st, c, u) == UsersOf(st, c)[IndexOf(st, c, u) + 1]

AcceptedPlus == {"joined", "restored", "joined_n", "added_n"}
RejectedPlus == {"closed", "no_room", "already", "max_guests", "no_room_n", "too_many"}
RejectedMinus == {"not_found", "only_guests", "not_found_n", "no_guests"}

\* users and other differ at most at the 0-based position idx
SameExceptAt(users, other, idx) ==
  /\ Len(other) = Len(users)
  /\ \A i \in 1..Len(users) : i # idx + 1 => other[i] = users[i]
\* other is users with the entry at the 0-based position idx taken out
SameWithout(users, other, idx) ==
  /\ Len(other) = Len(users) - 1
  /\ \A i \in 1..Len(other) : other[i] = users[IF i <= idx THEN i ELSE i + 1]

\* C1: right after an accepted join or addGuests in a chat whose limit is
\* positive, the occupied slots of that chat do not exceed the limit.
C1_LimitHeldAfterAccept ==
  \A c \in DOMAIN state :
    (reply \in AcceptedPlus /\ state[c].limit > 0)
      => _total_count(state[c].users) <= state[c].limit

\* C2: a rejected join, leave, addGuests or removeGuests (closed, limit,
\* guest cap, not found, redundant join, repeated leave of a guest-only
\* entry, no guests) leaves the chat's entries as they were.
C2_RejectionKeepsEntries ==
  \A c \in Chats, u \in Members :
    /\ LET r == plus_message(state, c, u)
       IN r.reply \in RejectedPlus => UsersOf(r.state, c) = UsersOf(state, c)
    /\ LET r == minus_message(state, c, u)
       IN r.reply \in RejectedMinus => UsersOf(r.state, c) = UsersOf(state, c)
    /\ \A n \in CommandNs :
         /\ LET r == _plus_n_common(state, c, u, n)
            IN r.reply \in RejectedPlus => UsersOf(r.state, c) = UsersOf(state, c)
         /\ LET r == _minus_n_common(state, c, u, n)
            IN r.reply \in RejectedMinus => UsersOf(r.state, c) = UsersOf(state, c)

\* C2 witness: an addGuests was just rejected for the guest cap, and a
\* removeGuests would be rejected in the same roster.
C2_Witness ==
  \E c \in DOMAIN state :
    /\ reply = "too_many" /\ Len(state[c].users) = 2
    /\ \E u \in Members : _minus_n_common(state, c, u, 1).reply \in RejectedMinus

\* C3: while the roster is closed every join and every addGuests is
\* rejected as closed and leaves the entries, hence the occupied slots, alone.
C3_ClosedRejectsJoins ==
  \A c \in Chats, u \in Members :
    ~OpenOf(state, c) =>
      /\ LET r == plus_message(state, c, u)
         IN r.reply = "closed" /\ UsersOf(r.state, c) = UsersOf(state, c)
              /\ ~OpenOf(r.state, c)
      /\ \A n \in CommandNs :
           LET r == _plus_n_common(state, c, u, n)
           IN r.reply = "closed" /\ UsersOf(r.state, c) = UsersOf(state, c)
                /\ ~OpenOf(r.state, c)

\* C3 witness: a join or addGuests was just refused on a closed roster that
\* holds entries.
C3_Witness ==
  \E c \in DOMAIN state :
    reply = "closed" /\ ~state[c].open /\ state[c].users # <<>>

\* C4: every entry of every roster has between 0 and 5 guests, and an
\* entry without a host has at least one guest.
C4_EntriesValid ==
  \A c \in DOMAIN state : \A i \in 1..Len(state[c].users) :
    LET e == state[c].users[i]
    IN /\ _guest_count(e) >= 0 /\ _guest_count(e) <= MAX_GUESTS_PER_HOST
       /\ (_is_guest_only(e) => _guest_count(e) > 0)

\* C5 as stated: an accepted addGuests(identity, n) on a guest-only entry
\* leaves the entry guest-only, with n more guests.
C5_AddGuestsKeepsGuestOnly ==
  \A c \in Chats, u \in Members, n \in CommandNs :
    LET r == _plus_n_common(state, c, u, n)
    IN (IndexOf(state, c, u) # -1 /\ _is_guest_only(EntryOf(state, c, u))
          /\ r.reply = "added_n")
       => LET after == UsersOf(r.state, c)[IndexOf(state, c, u) + 1]
          IN /\ _is_guest_only(after)
             /\ _guest_count(after) = _guest_count(EntryOf(state, c, u)) + n

\* C5 amended: an accepted addGuests(identity, n) on a guest-only entry
\* brings the host back: the entry, at its position and under its name, has
\* a host and n more guests, and the roster occupies n + 1 more slots; on an
\* entry that has its host the host stays and the guests grow by n.
C5_AddGuestsRestoresHost ==
  \A c \in Chats, u \in Members, n \in CommandNs :
    LET r == _plus_n_common(state, c, u, n)
        idx == IndexOf(state, c, u)
    IN (idx # -1 /\ r.reply = "added_n")
       => LET before == EntryOf(state, c, u)
              after == UsersOf(r.state, c)[idx + 1]
          IN /\ SameExceptAt(UsersOf(state, c), UsersOf(r.state, c), idx)
             /\ ~_is_guest_only(after)
             /\ _guest_count(after) = _guest_count(before) + n
             /\ _strip_guest(after) = _strip_guest(before)
             /\ TotalOf(r.state, c) = TotalOf(state, c) + n
                  + (IF _is_guest_only(before) THEN 1 ELSE 0)

\* C5 witness: the host of an entry has just left, the entry is guest-only,
\* and an addGuests by the same member is accepted in this roster.
C5_Witness ==
  \E c \in DOMAIN state, u \in Members, n \in Ns :
    /\ reply = "host_left"
    /\ IndexOf(state, c, u) # -1 /\ _is_guest_only(EntryOf(state, c, u))
    /\ state[c].limit > 0
    /\ _plus_n_common(state, c, u, n).reply = "added_n"

\* C6: an accepted join or addGuests raises the occupied slots by exactly
\* the number of slots the command used in its limit check, and a rejected
\* one leaves them unchanged.
C6_AddedSlotsExact ==
  \A c \in Chats, u \in Members :
    /\ LET r == plus_message(state, c, u)
       IN TotalOf(r.state, c) =
            TotalOf(state, c) + (IF r.reply \in AcceptedPlus THEN r.added ELSE 0)
    /\ \A n \in CommandNs :
         LET r == _plus_n_common(state, c, u, n)
         IN TotalOf(r.state, c) =
              TotalOf(state, c) + (IF r.reply \in AcceptedPlus THEN r.added ELSE 0)

\* C7: leave(identity) turns a found entry that has its host and guests
\* into a guest-only entry with the same guests, name and position; leaves
\* a found guest-only entry as it is; deletes a found entry that is a plain
\* host; and changes nothing when the identity is not found.
C7_LeaveEffects ==
  \A c \in Chats, u \in Members :
    LET users == UsersOf(state, c)
        idx == IndexOf(state, c, u)
        after == UsersOf(minus_message(state, c, u).state, c)
    IN IF idx = -1 THEN after = users
       ELSE LET e == users[idx + 1]
            IN IF ~_is_guest_only(e) /\ _guest_count(e) > 0
               THEN /\ SameExceptAt(users, after, idx)
                    /\ _is_guest_only(after[idx + 1])
                    /\ _guest_count(after[idx + 1]) = _guest_count(e)
                    /\ _strip_guest(after[idx + 1]) = _strip_guest(e)
               ELSE IF _is_guest_only(e) THEN after = users
               ELSE SameWithout(users, after, idx)

\* C7 witness: a host has just left the second entry of a roster of two;
\* the entry is still the second one and holds only guests.
C7_Witness ==
  \E c \in DOMAIN state :
    /\ reply = "host_left" /\ Len(state[c].users) = 2
    /\ _is_guest_only(state[c].users[2]) /\ ~_is_guest_only(state[c].users[1])

\* C8: removeGuests(identity, n) with n >= guestCount > 0 turns an entry
\* with a host into a plain host entry without guests and deletes a
\* guest-only entry; with n < guestCount it lowers guestCount by n and keeps
\* hostPresent.
C8_RemovalExhaustion ==
  \A c \in Chats, u \in Members, n \in CommandNs :
    LET users == UsersOf(state, c)
        idx == IndexOf(state, c, u)
        after == UsersOf(_minus_n_common(state, c, u, n).state, c)
    IN (idx # -1 /\ _guest_count(users[idx + 1]) > 0)
       => LET e == users[idx + 1]
          IN IF n >= _guest_count(e)
             THEN IF _is_guest_only(e) THEN SameWithout(users, after, idx)
                  ELSE /\ SameExceptAt(users, after, idx)
                       /\ _guest_count(after[idx + 1]) = 0
                       /\ ~_is_guest_only(after[idx + 1])
             ELSE /\ SameExceptAt(users, after, idx)
                  /\ _guest_count(after[idx + 1]) = _guest_count(e) - n
                  /\ _is_guest_only(after[idx + 1]) = _is_guest_only(e)

\* the number of display lines equal to line
CountLines(lines, line) == Cardinality({i \in 1..Len(lines) : lines[i] = line})
HostLine(u) == Strip(display_name_from_update(u))
GuestLine(u) == HostLine(u) \o <<" ", "+", "1">>

\* C9: on an open roster with room for three more slots and no entry of the
\* member, join, addGuests(2), leave by that member give an expansion with
\* exactly two guest lines and no host line of the member; a further join
\* brings the host line back and keeps the two guest lines.
C9_GuestSurvival ==
  \A c \in Chats, u \in Members :
    LET s1 == plus_message(state, c, u).state
        s2 == _plus_n_common(s1, c, u, 2).state
        s3 == minus_message(s2, c, u).state
        s4 == plus_message(s3, c, u).state
        left == _expanded_users(UsersOf(s3, c))
        back == _expanded_users(UsersOf(s4, c))
    IN (OpenOf(state, c) /\ IndexOf(state, c, u) = -1
          /\ (LimitOf(state, c) = 0 \/ TotalOf(state, c) + 3 <= LimitOf(state, c)))
       => /\ CountLines(left, GuestLine(u)) = 2
          /\ CountLines(left, HostLine(u)) = 0
          /\ CountLines(back, GuestLine(u)) = 2
          /\ CountLines(back, HostLine(u)) = 1

\* C10: a second join(identity) right after the first leaves the dict as
\* the first left it, and is answered as already joined or with the first
\* call's rejection.
C10_JoinIdempotent ==
  \A c \in Chats, u \in Members :
    LET r1 == plus_message(state, c, u)
        r2 == plus_message(r1.state, c, u)
    IN /\ r2.state = r1.state
       /\ r2.reply = IF r1.reply \in AcceptedPlus THEN "already" ELSE r1.reply

AcceptedMinus == {"host_left", "left", "guests_cleared", "guests_removed"}

\* C11: leave and removeGuests do to the entries, and answer, the same
\* whatever the chat's open flag and limit are: the handler applied to the
\* dict with the open flag inverted and the limit set to none (0) or to the
\* tightest one (1) gives the same entries and the same reply.
C11_LeaveIgnoresOpenAndLimit ==
  \A c \in DOMAIN state, u \in Members :
    /\ LET r0 == minus_message(state, c, u)
       IN \A l \in {0, 1} :
            LET r1 == minus_message(
                        [state EXCEPT ![c].open = ~state[c].open, ![c].limit = l], c, u)
            IN UsersOf(r1.state, c) = UsersOf(r0.state, c) /\ r1.reply = r0.reply
    /\ \A n \in CommandNs :
         LET r0 == _minus_n_common(state, c, u, n)
         IN \A l \in {0, 1} :
              LET r1 == _minus_n_common(
                          [state EXCEPT ![c].open = ~state[c].open, ![c].limit = l], c, u, n)
              IN UsersOf(r1.state, c) = UsersOf(r0.state, c) /\ r1.reply = r0.reply

\* C11 witness: a leave or removeGuests has just been carried out on a
\* closed roster with a positive limit, and entries remain.
C11_Witness ==
  \E c \in DOMAIN state :
    /\ reply \in AcceptedMinus
    /\ ~state[c].open /\ state[c].limit > 0 /\ state[c].users # <<>>

\* the host display of an entry, ignoring case and guest suffix
HostKey(e) == _strip_guest(Lower(e))
\* after is users with one entry appended
SamePlusOne(users, after) ==
  Len(after) = Len(users) + 1 /\ SubSeq(after, 1, Len(users)) = users
\* after is users, or users with one entry appended, rewritten in place or
\* taken out
OrderKept(users, after) ==
  \/ after = users
  \/ SamePlusOne(users, after)
  \/ \E idx \in 0..(Len(users) - 1) :
       SameExceptAt(users, after, idx) \/ SameWithout(users, after, idx)

\* C12 (order): every join, addGuests, leave and removeGuests leaves the
\* entries as they were, or appends one at the end, or rewrites or deletes
\* one in place, the others keeping their order.
C12_OrderPreserved ==
  \A c \in Chats, u \in Members :
    /\ OrderKept(UsersOf(state, c), UsersOf(plus_message(state, c, u).state, c))
    /\ OrderKept(UsersOf(state, c), UsersOf(minus_message(state, c, u).state, c))
    /\ \A n \in CommandNs :
         /\ OrderKept(UsersOf(state, c), UsersOf(_plus_n_common(state, c, u, n).state, c))
         /\ OrderKept(UsersOf(state, c), UsersOf(_minus_n_common(state, c, u, n).state, c))

\* C12: no two entries of a roster have the same host display (ignoring
\* case and guest suffix), and the commands keep the insertion order.
C12_NoDuplicateOrderKept ==
  /\ \A c \in DOMAIN state :
       \A i, j \in 1..Len(state[c].users) :
         i < j => HostKey(state[c].users[i]) # HostKey(state[c].users[j])
  /\ C12_OrderPreserved

\* the record of chat c in the dict st; a chat not touched yet has the
\* record its first touch creates
RecordOf(st, c) == ensure_chat(st, c)[c]
Admins == {u \in Members : is_admin_member(u)}

\* what /open with the arguments args does to a record when all of it is
\* applied
FullOpen(rec, args) ==
  [rec EXCEPT !.open = TRUE,
              !.date = IF Len(args) >= 1 THEN args[1] ELSE @,
              !.time = IF Len(args) >= 2 THEN args[2] ELSE @]

\* C13: every command leaves the chat's record either with all of the
\* command's effects applied or exactly as it was; stated for /open with
\* every combination of valid and invalid date and time, and for /setdate,
\* /settime and /setlimit.
C13_NoPartialMutation ==
  \A c \in Chats, u \in Members :
    LET rec == RecordOf(state, c)
    IN /\ \A a \in OpenArgs :
            RecordOf(open_cmd(state, c, u, a).state, c) \in {rec, FullOpen(rec, a)}
       /\ \A d \in DateArgs :
            RecordOf(setdate_cmd(state, c, u, <<d>>).state, c)
              \in {rec, [rec EXCEPT !.date = d]}
       /\ \A t \in TimeArgs :
            RecordOf(settime_cmd(state, c, u, <<t>>).state, c)
              \in {rec, [rec EXCEPT !.time = t]}
       /\ \A a \in LimitArgs \ {<<>>} :
            RecordOf(setlimit_cmd(state, c, u, a).state, c)
              \in {rec} \cup {[rec EXCEPT !.limit = k] : k \in 0..MaxLimit}

\* C14 as stated: /open by an admin always opens the roster, and applies
\* each supplied field that is valid, whatever the other field is.
C14_OpenFieldsIndependent ==
  \A c \in Chats, u \in Admins, a \in OpenArgs :
    LET rec == RecordOf(open_cmd(state, c, u, a).state, c)
    IN /\ rec.open
       /\ (Len(a) >= 1 /\ DateOk(a[1])) => rec.date = a[1]
       /\ (Len(a) >= 2 /\ TimeOk(a[2])) => rec.time = a[2]

\* C14 amended: /open by an admin checks the date, then the time, and stops
\* at the first field it cannot parse: it answers with an error, saves
\* nothing and leaves open, time, field, limit and users as they were (a
\* valid date in front of an invalid time is already written to the record
\* in memory).  Only when every supplied field is valid does it apply them,
\* set open and save.
C14_OpenStopsAtFirstInvalid ==
  \A c \in Chats, u \in Admins, a \in OpenArgs :
    LET old == RecordOf(state, c)
        r == open_cmd(state, c, u, a)
        rec == RecordOf(r.state, c)
        dateBad == Len(a) >= 1 /\ ~DateOk(a[1])
        timeBad == Len(a) >= 2 /\ ~TimeOk(a[2])
    IN IF dateBad THEN r.reply = "error" /\ ~r.save /\ rec = old
       ELSE IF timeBad
       THEN r.reply = "error" /\ ~r.save /\ rec = [old EXCEPT !.date = a[1]]
       ELSE r.reply = "opened" /\ r.save /\ rec = FullOpen(old, a)

\* C14 witness: /open with a valid date and an invalid time was just
\* refused: the roster is closed, the date is in the record in memory and
\* not in the file.
C14_Witness ==
  \E c \in DOMAIN state :
    /\ reply = "error" /\ ~state[c].open /\ state[c].date = GoodDate
    /\ (disk.exists => disk.data[c].date # GoodDate)

\* the record ensure_chat creates
DefaultRecord == RecordOf(EmptyState, GroupChat)

\* C15: after every command, each chat record that differs from a freshly
\* created one is in the file exactly as it is in memory, so a restart
\* loses nothing.
C15_DurableEqualsMemory ==
  \A c \in DOMAIN state :
    state[c] # DefaultRecord =>
      (disk.exists /\ c \in DOMAIN disk.data /\ disk.data[c] = state[c])

\* The decision behind the reply rep of a join or addGuests by member u
\* with n guests is right for the dict st: the roster is open, the member's
\* entry is found or not as the reply says, and the slots the command adds
\* fit under the limit.
FreshDecision(st, c, u, n, rep) ==
  LET idx == IndexOf(st, c, u)
      lim == LimitOf(st, c)
      tot == TotalOf(st, c)
  IN /\ OpenOf(st, c)
     /\ rep = "joined" => idx = -1 /\ ~LimitExceeded(lim, tot, 1)
     /\ rep = "joined_n" => idx = -1 /\ ~LimitExceeded(lim, tot, 1 + n)
     /\ rep = "restored" =>
          /\ idx # -1 /\ _is_guest_only(EntryOf(st, c, u))
          /\ ~LimitExceeded(lim, tot, 1)
     /\ rep = "added_n" =>
          /\ idx # -1
          /\ ~LimitExceeded(lim, tot, n + (IF _is_guest_only(EntryOf(st, c, u)) THEN 1 ELSE 0))

\* C16: with handlers interleaved at their awaits, whenever a join or
\* addGuests handler goes on to send an accepting reply, hence has written
\* its entry, its lookup of the member and its capacity check are true of
\* the dict as it is at that very step: no handler writes on the strength
\* of a check made before another handler's write.
C16_ChecksAreFresh ==
  [][\A i \in 1..MaxTasks :
       (tasks[i].pc # "reply" /\ tasks'[i].pc = "reply" /\ tasks'[i].rep \in AcceptedPlus)
         => FreshDecision(state, tasks'[i].c, tasks'[i].u, tasks'[i].n, tasks'[i].rep)]_vars

\* C16 witness: two join or addGuests handlers are suspended in their
\* replies at the same time under a positive limit, one accepted and the
\* other refused for lack of room, while the roster is full.
C16_Witness ==
  \E i, j \in 1..MaxTasks :
    /\ tasks[i].pc = "reply" /\ tasks[i].rep \in AcceptedPlus
    /\ tasks[j].pc = "reply" /\ tasks[j].rep \in {"no_room", "no_room_n"}
    /\ LimitOf(state, tasks[i].c) > 0
    /\ TotalOf(state, tasks[i].c) >= LimitOf(state, tasks[i].c)

\* C17: in the expansion of every roster, the lines of entry i start right
\* after the slots of the entries before it: one host line iff the entry
\* has its host, then exactly guestCount guest lines; so the number of
\* lines, which is the count the list prints and holds against the limit,
\* is the number of occupied slots.
C17_ExpandMatchesCount ==
  \A c \in DOMAIN state :
    LET users == state[c].users
        lines == _expanded_users(users)
    IN /\ Len(lines) = _total_count(users)
       /\ format_list_count(state[c]) = _total_count(users)
       /\ format_list_cap(state[c]) = (state[c].limit > 0 /\ _total_count(users) >= state[c].limit)
       /\ \A i \in 1..Len(users) :
            LET e == users[i]
                off == _total_count(SubSeq(users, 1, i - 1))
                host == IF _is_guest_only(e) THEN 0 ELSE 1
            IN /\ host = 1 => lines[off + 1] = _strip_guest(e)
               /\ \A k \in 1.._guest_count(e) :
                    lines[off + host + k] = _strip_guest(e) \o <<" ", "+", "1">>
               /\ _total_count(SubSeq(users, 1, i)) = off + host + _guest_count(e)

\* C17 witness: the list was just shown for a roster of two entries, one
\* with its host and guests and one with guests only.
C17_Witness ==
  \E c \in DOMAIN state :
    /\ reply = "list" /\ Len(state[c].users) = 2
    /\ \E i, j \in 1..2 :
         /\ _is_guest_only(state[c].users[i])
         /\ ~_is_guest_only(state[c].users[j]) /\ _guest_count(state[c].users[j]) > 0

\* the host displays the codec is given: the display names of the members
\* and the names it reads back from the entries of the rosters
HostDisplays ==
  {Strip(display_name_from_update(u)) : u \in Members}
    \cup UNION {{_strip_guest(state[c].users[i]) : i \in 1..Len(state[c].users)} :
                c \in DOMAIN state}

\* C18: for every host display, every guest count 0..5 and either value of
\* hostPresent (a host or at least one guest), decoding the string that
\* _make_entry builds gives back the same host display, hostPresent and
\* guest count.
C18_CodecRoundTrip ==
  \A d \in HostDisplays, hostPresent \in BOOLEAN, n \in 0..MAX_GUESTS_PER_HOST :
    (hostPresent \/ n > 0) =>
      LET e == _make_entry(d, n, ~hostPresent)
      IN /\ _strip_guest(e) = d
         /\ _is_guest_only(e) = ~hostPresent
         /\ _guest_count(e) = n

\* the (displayName, handle) pairs looked up: those of four members, and
\* Ed's name with Al's handle, in lower and in upper case
LookupArgs ==
  {<<display_name_from_update(u), u.username>> : u \in {Al, Ev, Bo, Ed}}
    \cup {<<Ed.first_name, Al.username>>, <<<<"e">>, <<"A", "B">>>>}

\* entry e passes the handle test or the name test for (displayName, handle)
HandleTest(e, handle) ==
  handle # None /\ Contains(Lower(e), <<"@">> \o Lower(handle))
NameTest(e, displayName) == Lower(_strip_guest(e)) = Lower(Strip(displayName))

\* C19: _find_user_index returns the smallest 0-based index of an entry
\* that contains "@" + handle in lower case (when a handle is given) or
\* that, without its guest suffix, equals the display name up to case; and
\* -1 exactly when no entry passes either test.
C19_IndexOfFirstMatch ==
  \A c \in DOMAIN state, a \in LookupArgs :
    LET users == state[c].users
        idx == _find_user_index(users, a[1], a[2])
        hits == {i \in 1..Len(users) :
                   HandleTest(users[i], a[2]) \/ NameTest(users[i], a[1])}
    IN IF hits = {} THEN idx = -1
       ELSE idx + 1 \in hits /\ \A j \in hits : idx + 1 <= j

\* C19 witness: a roster of two in which the first entry passes only the
\* name test and the second passes the handle test of the same lookup,
\* which returns the first.
C19_Witness ==
  \E c \in DOMAIN state :
    LET users == state[c].users
    IN /\ Len(users) = 2
       /\ NameTest(users[1], Ed.first_name) /\ ~HandleTest(users[1], Al.username)
       /\ HandleTest(users[2], Al.username)
       /\ _find_user_index(users, Ed.first_name, Al.username) = 0

\* entry e was created by member u: it carries u's handle in full, or no
\* handle at all when u has none
CreatedBy(e, u) ==
  IF u.username # None
  THEN Contains(e, <<"(", "@">> \o u.username \o <<")">>)
  ELSE ~Contains(e, <<"@">>)
\* the entries of users that member u did not create, in their order
RECURSIVE EntriesOfOthers(_, _)
EntriesOfOthers(users, u) ==
  IF users = <<>> THEN <<>>
  ELSE (IF CreatedBy(Head(users), u) THEN <<>> ELSE <<Head(users)>>)
         \o EntriesOfOthers(Tail(users), u)

\* C20: a join, leave, addGuests or removeGuests by a member leaves the
\* entries that other members created exactly as they were; stated for Al,
\* Ev and for Bo, whose handle "a" is the beginning of Al's handle "ab".
C20_OthersEntriesUntouched ==
  \A c \in Chats, u \in Members \cup {Bo} :
    LET others == EntriesOfOthers(UsersOf(state, c), u)
    IN /\ EntriesOfOthers(UsersOf(plus_message(state, c, u).state, c), u) = others
       /\ EntriesOfOthers(UsersOf(minus_message(state, c, u).state, c), u) = others
       /\ \A n \in Ns :
            /\ EntriesOfOthers(UsersOf(_plus_n_common(state, c, u, n).state, c), u) = others
            /\ EntriesOfOthers(UsersOf(_minus_n_common(state, c, u, n).state, c), u) = others

\* the handler call r for chat a kept every record the dict st holds, left
\* the records of the chats other than a as they were, and created no
\* record but a's
OtherChatsKept(st, r, a) ==
  /\ DOMAIN st \subseteq DOMAIN r.state
  /\ DOMAIN r.state \subseteq DOMAIN st \cup {a}
  /\ \A b \in DOMAIN st \ {a} : r.state[b] = st[b]

\* C21: every command for chat a, the first one that creates a's record
\* (closed, limit 0, no entries) included, leaves the record of every other
\* chat in the dict unchanged, and no command takes a record out of the dict.
C21_ChatIsolation ==
  \A a \in TwoChats, u \in Members :
    /\ OtherChatsKept(state, plus_message(state, a, u), a)
    /\ OtherChatsKept(state, minus_message(state, a, u), a)
    /\ \A n \in Ns :
         /\ OtherChatsKept(state, _plus_n_common(state, a, u, n), a)
         /\ OtherChatsKept(state, _minus_n_common(state, a, u, n), a)
    /\ \A args \in OpenArgs : OtherChatsKept(state, open_cmd(state, a, u, args), a)
    /\ OtherChatsKept(state, close_cmd(state, a, u), a)
    /\ OtherChatsKept(state, setdate_cmd(state, a, u, <<GoodDate>>), a)
    /\ OtherChatsKept(state, settime_cmd(state, a, u, <<GoodTime>>), a)
    /\ OtherChatsKept(state, setfield_cmd(state, a, u, "Arena-2"), a)
    /\ \A args \in LimitArgs : OtherChatsKept(state, setlimit_cmd(state, a, u, args), a)
    /\ \A k \in RemoveKeys : OtherChatsKept(state, remove_cmd(state, a, u, k), a)
    /\ OtherChatsKept(state, reset_cmd(state, a, u), a)
    /\ OtherChatsKept(state, start(state, a), a)
    /\ LET r == list_cmd(state, a)
       IN /\ OtherChatsKept(state, r, a)
          /\ a \notin DOMAIN state =>
               (~r.state[a].open /\ r.state[a].limit = 0 /\ r.state[a].users = <<>>)

\* C21 witness: the list of one chat was just reset and is empty, while
\* the other chat is open under a limit and still has its entry.
C21_Witness ==
  \E a, b \in DOMAIN state :
    /\ reply = "reset" /\ a # b
    /\ state[a].users = <<>>
    /\ state[b].users # <<>> /\ state[b].open /\ state[b].limit > 0

\* C22: whenever the lookup finds an entry for a member, whatever open and
\* limit are, leave followed at once by removeGuests(5) by that member
\* gives a roster in which the lookup finds no entry for the member, and
\* which occupies fewer slots by exactly those of the entry found; stated
\* for Al, Ev and Ed.
C22_LeaveThenRemoveClears ==
  \A c \in Chats, u \in Members \cup {Ed} :
    IndexOf(state, c, u) # -1 =>
      LET s1 == minus_message(state, c, u).state
          s2 == _minus_n_common(s1, c, u, MAX_GUESTS_PER_HOST).state
      IN /\ IndexOf(s2, c, u) = -1
         /\ TotalOf(s2, c) = TotalOf(state, c) - EntrySlots(EntryOf(state, c, u))
====
